---- MODULE Spec2Model ----
(***************************************************************************)
(* Model of asyncapi_eventrouter/router.py: the three-level registry       *)
(* Application -> ChannelRouter -> Channel -> Subscription | Publish, the  *)
(* validation/dispatch pipeline and the schema export.                     *)
(*                                                                         *)
(* A Python dict is a function whose DOMAIN is the key set.  A call of the *)
(* public API is one action; its outcome (return value, raised exception,  *)
(* handlers invoked, warnings emitted) is recorded in the variable `call`. *)
(***************************************************************************)
EXTENDS Integers, Sequences, FiniteSets, TLC

VARIABLES channels, call, ncalls, heap, refs, threads

vars == <<channels, call, ncalls, heap, refs, threads>>

(* the state of the threads that call into one router concurrently *)
tvars == <<heap, refs, threads>>

(* Longest sequence of API calls explored. *)
MaxCalls == 3

(***************************************************************************)
(* Inputs                                                                  *)
(***************************************************************************)
ChannelNames == {"c1", "c2"}

EventNames == {"e1", "e2"}

(* pydantic models used as handler annotations and publish shapes *)
Models == {"ModelId", "ModelText"}

(* the required fields of a model *)
Fields(model) == IF model = "ModelId" THEN {"id"} ELSE {"text"}

(* handler functions handed to register_subscription *)
Handlers == {"hId", "hText", "h0", "h2"}

(* raw payloads: mappings from field names to values *)
Payloads == UNION {[S -> {"x"}] : S \in SUBSET {"id", "text"}}

(* Python's None *)
None == [none |-> TRUE]

NoError == "none"

(***************************************************************************)
(* Collaborators: inspect.signature, the pydantic model, the handler body  *)
(***************************************************************************)
(* inspect.signature(func).parameters.values(): the annotations, in order *)
Parameters(func) ==
  CASE func = "hId" -> <<"ModelId">>
    [] func = "hText" -> <<"ModelText">>
    [] func = "h0" -> <<>>
    [] OTHER -> <<"ModelId", "ModelText">>

(* model(data) succeeds iff every required field is supplied *)
Validates(model, data) == Fields(model) \subseteq DOMAIN data

(* model(data): the typed value; fields the model does not declare are dropped *)
Construct(model, data) ==
  [model |-> model, fields |-> [f \in Fields(model) |-> data[f]]]

(* func(validated): hId returns what it received, hText returns None *)
Invoke(func, validated) ==
  IF func = "hText" THEN None ELSE [handler |-> func, arg |-> validated]

(* model.schema() *)
ModelSchema(model) ==
  [title |-> model, type |-> "object", required |-> Fields(model)]

(***************************************************************************)
(* Subscription, Publish                                                   *)
(***************************************************************************)

(* the parameter check only rejects handlers without parameters *)
Subscription_init_AtLeastOne(func) ==
  IF Len(Parameters(func)) < 1
    THEN [raised |-> "Exception", sub |-> None]
    ELSE [raised |-> NoError,
          sub |-> [func |-> func, model |-> Parameters(func)[1]]]

Subscription_init(func) ==
  IF Len(Parameters(func)) # 1
    THEN [raised |-> "Exception", sub |-> None]
    ELSE [raised |-> NoError,
          sub |-> [func |-> func, model |-> Parameters(func)[1]]]


(* the handler is called before the payload is validated *)
Subscription_process_InvokeFirst(sub, data) ==
  IF ~Validates(sub.model, data)
    THEN [raised |-> "ValidationError", ret |-> None, called |-> <<sub.func>>]
    ELSE [raised |-> NoError,
          ret |-> Invoke(sub.func, Construct(sub.model, data)),
          called |-> <<sub.func>>]

Subscription_process(sub, data) ==
  IF ~Validates(sub.model, data)
    THEN [raised |-> "ValidationError", ret |-> None, called |-> <<>>]
    ELSE [raised |-> NoError,
          ret |-> Invoke(sub.func, Construct(sub.model, data)),
          called |-> <<sub.func>>]

Subscription_schema(sub) == [payload |-> ModelSchema(sub.model)]

Publish_init(model) == [model |-> model]

Publish_schema(pub) == [payload |-> ModelSchema(pub.model)]

(***************************************************************************)
(* Channel                                                                 *)
(***************************************************************************)
Channel_init == [publishers |-> <<>>, subscribers |-> <<>>]

(* the assignment replaces the dict by one that holds only the new key *)
DictSet_Replace(d, k, v) == [x \in {k} |-> v]


(* d[k] = v on a dict *)
DictSet(d, k, v) == [x \in DOMAIN d \cup {k} |-> IF x = k THEN v ELSE d[x]]


(* an existing subscription is kept instead of being replaced *)
Channel_register_subscription_KeepFirst(ch, event_name, func) ==
  LET warned == IF event_name \in DOMAIN ch.subscribers THEN 1 ELSE 0
      made   == Subscription_init(func)
  IN  IF made.raised # NoError \/ event_name \in DOMAIN ch.subscribers
        THEN [channel |-> ch, warned |-> warned, raised |-> made.raised]
        ELSE [channel |-> [ch EXCEPT !.subscribers =
                                       DictSet(@, event_name, made.sub)],
              warned |-> warned, raised |-> NoError]

Channel_register_subscription(ch, event_name, func) ==
  LET warned == IF event_name \in DOMAIN ch.subscribers THEN 1 ELSE 0
      made   == Subscription_init(func)
  IN  IF made.raised # NoError
        THEN [channel |-> ch, warned |-> warned, raised |-> made.raised]
        ELSE [channel |-> [ch EXCEPT !.subscribers =
                                       DictSet(@, event_name, made.sub)],
              warned |-> warned, raised |-> NoError]

Channel_register_publish(ch, event_name, model) ==
  LET warned == IF event_name \in DOMAIN ch.publishers THEN 1 ELSE 0
  IN  [channel |-> [ch EXCEPT !.publishers =
                                DictSet(@, event_name, Publish_init(model))],
       warned |-> warned, raised |-> NoError]

(* the decorator drops the handler instead of returning it *)
Channel_subscribe_NoReturn(ch, event_name, func) ==
  LET r == Channel_register_subscription(ch, event_name, func)
  IN  [channel |-> r.channel, warned |-> r.warned, raised |-> r.raised,
       ret |-> None]

(* subscribe(event_name)(func): registers, then returns func itself *)
Channel_subscribe(ch, event_name, func) ==
  LET r == Channel_register_subscription(ch, event_name, func)
  IN  [channel |-> r.channel, warned |-> r.warned, raised |-> r.raised,
       ret |-> IF r.raised = NoError THEN [function |-> func] ELSE None]

(* an event name with only a publish descriptor is taken for a dispatch target *)
Channel_process_PublishersToo(ch, event_name, data) ==
  IF event_name \in DOMAIN ch.subscribers
    THEN Subscription_process(ch.subscribers[event_name], data)
    ELSE IF event_name \in DOMAIN ch.publishers
           THEN [raised |-> "KeyError", ret |-> None, called |-> <<>>]
           ELSE [raised |-> NoError, ret |-> None, called |-> <<>>]


(* the subscription is looked up without the membership test *)
Channel_process_NoGuard(ch, event_name, data) ==
  IF event_name \in DOMAIN ch.subscribers
    THEN Subscription_process(ch.subscribers[event_name], data)
    ELSE [raised |-> "KeyError", ret |-> None, called |-> <<>>]

Channel_process(ch, event_name, data) ==
  IF event_name \in DOMAIN ch.subscribers
    THEN Subscription_process(ch.subscribers[event_name], data)
    ELSE [raised |-> NoError, ret |-> None, called |-> <<>>]

(* collections.defaultdict(dict): a key exists once something was put under it *)

(* subscriptions listed under "subscribe", publish descriptors under "publish" *)
Channel_schema_NotInverted(ch) ==
  LET keys == (IF DOMAIN ch.subscribers # {} THEN {"subscribe"} ELSE {})
              \cup (IF DOMAIN ch.publishers # {} THEN {"publish"} ELSE {})
  IN  [k \in keys |->
         IF k = "subscribe"
           THEN [e \in DOMAIN ch.subscribers |->
                   Subscription_schema(ch.subscribers[e])]
           ELSE [e \in DOMAIN ch.publishers |->
                   Publish_schema(ch.publishers[e])]]

Channel_schema(ch) ==
  LET keys == (IF DOMAIN ch.subscribers # {} THEN {"publish"} ELSE {})
              \cup (IF DOMAIN ch.publishers # {} THEN {"subscribe"} ELSE {})
  IN  [k \in keys |->
         IF k = "publish"
           THEN [e \in DOMAIN ch.subscribers |->
                   Subscription_schema(ch.subscribers[e])]
           ELSE [e \in DOMAIN ch.publishers |->
                   Publish_schema(ch.publishers[e])]]

(***************************************************************************)
(* ChannelRouter                                                           *)
(***************************************************************************)
ChannelRouter_init == <<>>

(* the subscription is stored under the channel name instead of the event name *)
ChannelRouter_register_subscription_WrongKey(chs, channel_name, event_name, func) ==
  LET created == channel_name \notin DOMAIN chs
      chs1 == IF created THEN DictSet(chs, channel_name, Channel_init) ELSE chs
      r == Channel_register_subscription(chs1[channel_name], channel_name, func)
  IN  [channels |-> [chs1 EXCEPT ![channel_name] = r.channel],
       warned |-> r.warned, raised |-> r.raised, created |-> created]


ChannelRouter_register_subscription(chs, channel_name, event_name, func) ==
  LET created == channel_name \notin DOMAIN chs
      chs1 == IF created THEN DictSet(chs, channel_name, Channel_init) ELSE chs
      r == Channel_register_subscription(chs1[channel_name], event_name, func)
  IN  [channels |-> [chs1 EXCEPT ![channel_name] = r.channel],
       warned |-> r.warned, raised |-> r.raised, created |-> created]
ChannelRouter_subscribe(chs, channel_name, event_name, func) ==
  LET r == ChannelRouter_register_subscription(chs, channel_name, event_name, func)
  IN  [channels |-> r.channels, warned |-> r.warned, raised |-> r.raised,
       created |-> r.created,
       ret |-> IF r.raised = NoError THEN [function |-> func] ELSE None]

(* ChannelRouter defines no register_publish: the attribute lookup fails *)
ChannelRouter_register_publish(chs, channel_name, event_name, model) ==
  [channels |-> chs, warned |-> 0, raised |-> "AttributeError",
   created |-> FALSE]



(* the channel's result is dropped instead of returned *)
ChannelRouter_process_NoReturn(chs, channel_name, event_name, data) ==
  IF channel_name \in DOMAIN chs
    THEN [Channel_process(chs[channel_name], event_name, data)
            EXCEPT !.ret = None]
    ELSE [raised |-> NoError, ret |-> None, called |-> <<>>]

ChannelRouter_process(chs, channel_name, event_name, data) ==
  IF channel_name \in DOMAIN chs
    THEN Channel_process(chs[channel_name], event_name, data)
    ELSE [raised |-> NoError, ret |-> None, called |-> <<>>]

(* channels whose schema is empty are left out of the export *)
ChannelRouter_schema_SkipEmpty(chs) ==
  [name \in {n \in DOMAIN chs : Channel_schema(chs[n]) # <<>>} |->
     Channel_schema(chs[name])]


ChannelRouter_schema(chs) == [name \in DOMAIN chs |-> Channel_schema(chs[name])]

(***************************************************************************)
(* Event envelope and Application                                          *)
(***************************************************************************)
(* A raw message: json tells whether the text is well-formed JSON, body is *)
(* the object the text spells out.                                         *)
FullPayload == [f \in {"id", "text"} |-> "x"]

WellFormed ==
  {[json |-> TRUE, body |-> [channel |-> c, event |-> e, data |-> d]] :
     c \in ChannelNames, e \in EventNames, d \in Payloads}

Malformed ==
  {[json |-> FALSE, body |-> [channel |-> c, event |-> e, data |-> FullPayload]] :
     c \in ChannelNames, e \in EventNames}
  \cup {[json |-> TRUE, body |-> [channel |-> c, data |-> FullPayload]] :
          c \in ChannelNames}
  \cup {[json |-> TRUE, body |-> [event |-> e, data |-> FullPayload]] :
          e \in EventNames}

Messages == WellFormed \cup Malformed

(* Event.parse_raw(message): channel and event are required strings *)
Event_parse_raw(message) ==
  IF message.json /\ {"channel", "event"} \subseteq DOMAIN message.body
    THEN [raised |-> NoError,
          event |-> [channel |-> message.body.channel,
                     event |-> message.body.event,
                     data |-> message.body.data]]
    ELSE [raised |-> "DecodeError", event |-> None]

Application_init == ChannelRouter_init

Application_register_subscription(chs, channel, name, func) ==
  ChannelRouter_register_subscription(chs, channel, name, func)
Application_subscribe(chs, channel_name, event_name, func) ==
  LET r == Application_register_subscription(chs, channel_name, event_name, func)
  IN  [channels |-> r.channels, warned |-> r.warned, raised |-> r.raised,
       created |-> r.created,
       ret |-> IF r.raised = NoError THEN [function |-> func] ELSE None]

(* Application defines no register_publish: the attribute lookup fails *)
Application_register_publish(chs, channel, name, model) ==
  [channels |-> chs, warned |-> 0, raised |-> "AttributeError",
   created |-> FALSE]



(* a message that does not decode is dropped like an unroutable one *)
Application_process_SwallowDecode(chs, message) ==
  LET parsed == Event_parse_raw(message)
  IN  IF parsed.raised # NoError
        THEN [raised |-> NoError, ret |-> None, called |-> <<>>]
        ELSE ChannelRouter_process(chs, parsed.event.channel,
                                   parsed.event.event, parsed.event.data)

Application_process(chs, message) ==
  LET parsed == Event_parse_raw(message)
  IN  IF parsed.raised # NoError
        THEN [raised |-> parsed.raised, ret |-> None, called |-> <<>>]
        ELSE ChannelRouter_process(chs, parsed.event.channel,
                                   parsed.event.event, parsed.event.data)

Application_schema(chs) ==
  [asyncapi |-> "2.2.0", channels |-> ChannelRouter_schema(chs)]

(***************************************************************************)
(* The record of the last API call                                         *)
(***************************************************************************)
NoCall ==
  [op |-> "init", channel |-> "-", event |-> "-", func |-> "-", model |-> "-",
   data |-> <<>>, message |-> None, raised |-> NoError, ret |-> None,
   called |-> <<>>, warned |-> 0, created |-> FALSE, replaced |-> "-"]

(* threads calling into the router *)
Threads == {"t1", "t2"}

(* a thread that has not called yet *)
Idle ==
  [pc |-> "idle", op |-> "-", channel |-> "-", event |-> "-", func |-> "-",
   data |-> <<>>, missing |-> FALSE, ch |-> 0, sub |-> None, warned |-> 0,
   replaced |-> "-", raised |-> NoError, ret |-> None, called |-> <<>>]

Init ==
  /\ channels = Application_init
  /\ call = NoCall
  /\ ncalls = 0
  /\ heap = <<>>
  /\ refs = <<>>
  /\ threads = [t \in Threads |-> Idle]

(***************************************************************************)
(* Registration                                                            *)
(***************************************************************************)
(* the handler bound to (c, e) in chs, "-" when there is none *)
BoundFunc(chs, c, e) ==
  IF c \in DOMAIN chs /\ e \in DOMAIN chs[c].subscribers
    THEN chs[c].subscribers[e].func ELSE "-"

Registered(op, r, c, e, f) ==
  /\ ncalls < MaxCalls
  /\ ncalls' = ncalls + 1 /\ UNCHANGED tvars
  /\ channels' = r.channels
  /\ call' = [NoCall EXCEPT !.op = op, !.channel = c, !.event = e, !.func = f,
                            !.raised = r.raised, !.warned = r.warned,
                            !.created = r.created,
                            !.replaced = BoundFunc(channels, c, e)]

RegisterSubscription ==
  \E c \in ChannelNames, e \in EventNames, f \in Handlers :
    Registered("Application.register_subscription",
               Application_register_subscription(channels, c, e, f), c, e, f)

RouterRegisterSubscription ==
  \E c \in ChannelNames, e \in EventNames, f \in Handlers :
    Registered("ChannelRouter.register_subscription",
               ChannelRouter_register_subscription(channels, c, e, f), c, e, f)

ChannelRegisterSubscription ==
  \E c \in DOMAIN channels, e \in EventNames, f \in Handlers :
    LET r == Channel_register_subscription(channels[c], e, f)
    IN  Registered("Channel.register_subscription",
                   [channels |-> [channels EXCEPT ![c] = r.channel],
                    raised |-> r.raised, warned |-> r.warned,
                    created |-> FALSE], c, e, f)

ChannelRegisterPublish ==
  \E c \in DOMAIN channels, e \in EventNames, m \in Models :
    LET r == Channel_register_publish(channels[c], e, m)
    IN  /\ ncalls < MaxCalls
        /\ ncalls' = ncalls + 1 /\ UNCHANGED tvars
        /\ channels' = [channels EXCEPT ![c] = r.channel]
        /\ call' = [NoCall EXCEPT !.op = "Channel.register_publish",
                                  !.channel = c, !.event = e, !.model = m,
                                  !.raised = r.raised, !.warned = r.warned]

(* a register_publish call made on the router or the application *)
PublishAttempted(op, r, c, e, m) ==
  /\ ncalls < MaxCalls
  /\ ncalls' = ncalls + 1 /\ UNCHANGED tvars
  /\ channels' = r.channels
  /\ call' = [NoCall EXCEPT !.op = op, !.channel = c, !.event = e, !.model = m,
                            !.raised = r.raised, !.warned = r.warned,
                            !.created = r.created]

RouterRegisterPublish ==
  \E c \in ChannelNames, e \in EventNames, m \in Models :
    PublishAttempted("ChannelRouter.register_publish",
                     ChannelRouter_register_publish(channels, c, e, m), c, e, m)

RegisterPublish ==
  \E c \in ChannelNames, e \in EventNames, m \in Models :
    PublishAttempted("Application.register_publish",
                     Application_register_publish(channels, c, e, m), c, e, m)

(***************************************************************************)
(* Decorator form of registration                                          *)
(***************************************************************************)
Decorated(op, r, c, e, f) ==
  /\ ncalls < MaxCalls
  /\ ncalls' = ncalls + 1 /\ UNCHANGED tvars
  /\ channels' = r.channels
  /\ call' = [NoCall EXCEPT !.op = op, !.channel = c, !.event = e, !.func = f,
                            !.raised = r.raised, !.warned = r.warned,
                            !.created = r.created, !.ret = r.ret,
                            !.replaced = BoundFunc(channels, c, e)]

ChannelSubscribe ==
  \E c \in DOMAIN channels, e \in EventNames, f \in Handlers :
    LET r == Channel_subscribe(channels[c], e, f)
    IN  Decorated("Channel.subscribe",
                  [channels |-> [channels EXCEPT ![c] = r.channel],
                   raised |-> r.raised, warned |-> r.warned,
                   created |-> FALSE, ret |-> r.ret], c, e, f)

RouterSubscribe ==
  \E c \in ChannelNames, e \in EventNames, f \in Handlers :
    Decorated("ChannelRouter.subscribe",
              ChannelRouter_subscribe(channels, c, e, f), c, e, f)

Subscribe ==
  \E c \in ChannelNames, e \in EventNames, f \in Handlers :
    Decorated("Application.subscribe",
              Application_subscribe(channels, c, e, f), c, e, f)


(***************************************************************************)
(* Dispatch                                                                *)
(***************************************************************************)
Dispatched(op, r, c, e, d, msg) ==
  /\ ncalls < MaxCalls
  /\ ncalls' = ncalls + 1 /\ UNCHANGED tvars
  /\ UNCHANGED channels
  /\ call' = [NoCall EXCEPT !.op = op, !.channel = c, !.event = e, !.data = d,
                            !.message = msg, !.raised = r.raised,
                            !.ret = r.ret, !.called = r.called]

ChannelProcess ==
  \E c \in DOMAIN channels, e \in EventNames, d \in Payloads :
    Dispatched("Channel.process", Channel_process(channels[c], e, d),
               c, e, d, None)

RouterProcess ==
  \E c \in ChannelNames, e \in EventNames, d \in Payloads :
    Dispatched("ChannelRouter.process", ChannelRouter_process(channels, c, e, d),
               c, e, d, None)

Process ==
  \E msg \in Messages :
    LET parsed == Event_parse_raw(msg)
        ok == parsed.raised = NoError
    IN  Dispatched("Application.process", Application_process(channels, msg),
                   IF ok THEN parsed.event.channel ELSE "-",
                   IF ok THEN parsed.event.event ELSE "-",
                   IF ok THEN parsed.event.data ELSE <<>>, msg)

(***************************************************************************)
(* Schema export                                                           *)
(***************************************************************************)
Exported(op, c, schema) ==
  /\ ncalls < MaxCalls
  /\ ncalls' = ncalls + 1 /\ UNCHANGED tvars
  /\ UNCHANGED channels
  /\ call' = [NoCall EXCEPT !.op = op, !.channel = c, !.ret = schema]

ChannelSchema ==
  \E c \in DOMAIN channels :
    Exported("Channel.schema", c, Channel_schema(channels[c]))

RouterSchema == Exported("ChannelRouter.schema", "-", ChannelRouter_schema(channels))

Schema == Exported("Application.schema", "-", Application_schema(channels))

Next ==
  \/ RegisterSubscription
  \/ RouterRegisterSubscription
  \/ ChannelRegisterSubscription
  \/ ChannelRegisterPublish
  \/ RouterRegisterPublish
  \/ RegisterPublish
  \/ ChannelSubscribe
  \/ RouterSubscribe
  \/ Subscribe
  \/ ChannelProcess
  \/ RouterProcess
  \/ Process
  \/ ChannelSchema
  \/ RouterSchema
  \/ Schema

Spec == Init /\ [][Next]_vars

(***************************************************************************)
(* Two threads calling one router.  The Channel objects live in heap, the  *)
(* dict self.channels is refs (channel name -> index into heap), and       *)
(* channels is what the router holds: the objects refs points to.  A step  *)
(* is one access to a shared dict; the interpreter lock makes each access  *)
(* atomic and lets the threads switch between any two of them.             *)
(***************************************************************************)
View(rf, hp) == [n \in DOMAIN rf |-> hp[rf[n]]]

(* the registries a router can hold when the threads start: empty, or the
   result of one successful registration *)
StartRegistries ==
  {ChannelRouter_init}
  \cup {ChannelRouter_register_subscription(ChannelRouter_init, c, e, f).channels :
          c \in ChannelNames, e \in EventNames, f \in {"hId", "hText"}}

InitThreads ==
  /\ call = NoCall
  /\ ncalls = 0
  /\ threads = [t \in Threads |-> Idle]
  /\ \E chs \in StartRegistries :
       /\ channels = chs
       /\ heap = IF chs = <<>> THEN <<>>
                 ELSE <<chs[CHOOSE c \in DOMAIN chs : TRUE]>>
       /\ refs = [n \in DOMAIN chs |-> 1]

Step(t, th) ==
  /\ threads' = [threads EXCEPT ![t] = th]
  /\ UNCHANGED <<call, ncalls>>

(* a thread enters ChannelRouter.register_subscription *)
ThreadRegister(t) ==
  /\ threads[t].pc = "idle"
  /\ \E c \in ChannelNames, e \in EventNames, f \in Handlers :
       Step(t, [Idle EXCEPT !.pc = "check_channel", !.op = "register",
                            !.channel = c, !.event = e, !.func = f])
  /\ UNCHANGED <<channels, heap, refs>>

(* line 83: channel_name not in self.channels *)
RegCheckChannel(t) ==
  LET th == threads[t]
      missing == th.channel \notin DOMAIN refs
  IN  /\ th.pc = "check_channel"
      /\ Step(t, [th EXCEPT !.missing = missing,
                            !.pc = IF missing THEN "create_channel"
                                   ELSE "get_channel"])
      /\ UNCHANGED <<channels, heap, refs>>

(* line 84: self.channels[channel_name] = Channel() *)
RegCreateChannel(t) ==
  LET th == threads[t]
  IN  /\ th.pc = "create_channel"
      /\ heap' = Append(heap, Channel_init)
      /\ refs' = DictSet(refs, th.channel, Len(heap) + 1)
      /\ channels' = View(refs', heap')
      /\ Step(t, [th EXCEPT !.pc = "get_channel"])

(* line 85: self.channels[channel_name] *)
RegGetChannel(t) ==
  LET th == threads[t]
  IN  /\ th.pc = "get_channel"
      /\ Step(t, IF th.channel \in DOMAIN refs
                   THEN [th EXCEPT !.ch = refs[th.channel], !.pc = "check_event"]
                   ELSE [th EXCEPT !.raised = "KeyError", !.pc = "done"])
      /\ UNCHANGED <<channels, heap, refs>>

(* lines 47-49: the overwrite test and warning, then Subscription(func) *)
RegCheckEvent(t) ==
  LET th == threads[t]
      subs == heap[th.ch].subscribers
      present == th.event \in DOMAIN subs
      made == Subscription_init(th.func)
      seen == [th EXCEPT !.warned = IF present THEN 1 ELSE 0,
                         !.replaced = IF present THEN subs[th.event].func
                                      ELSE "-"]
  IN  /\ th.pc = "check_event"
      /\ Step(t, IF made.raised # NoError
                   THEN [seen EXCEPT !.raised = made.raised, !.pc = "done"]
                   ELSE [seen EXCEPT !.sub = made.sub, !.pc = "store"])
      /\ UNCHANGED <<channels, heap, refs>>

(* the old entry is deleted in one step and the new one stored in the next *)
RegStore_PopFirst(t) ==
  LET th == threads[t]
      subs == heap[th.ch].subscribers
  IN  /\ th.pc = "store"
      /\ IF th.event \in DOMAIN subs
           THEN /\ heap' = [heap EXCEPT ![th.ch].subscribers =
                              [x \in DOMAIN subs \ {th.event} |-> subs[x]]]
                /\ Step(t, th)
           ELSE /\ heap' = [heap EXCEPT ![th.ch].subscribers =
                              DictSet(@, th.event, th.sub)]
                /\ Step(t, [th EXCEPT !.pc = "done"])
      /\ refs' = refs
      /\ channels' = View(refs', heap')

(* line 50: self.subscribers[event_name] = sub *)
RegStore(t) ==
  LET th == threads[t]
  IN  /\ th.pc = "store"
      /\ heap' = [heap EXCEPT ![th.ch].subscribers =
                                 DictSet(@, th.event, th.sub)]
      /\ refs' = refs
      /\ channels' = View(refs', heap')
      /\ Step(t, [th EXCEPT !.pc = "done"])

(* a thread enters ChannelRouter.process *)
ThreadProcess(t) ==
  /\ threads[t].pc = "idle"
  /\ \E c \in ChannelNames, e \in EventNames, d \in Payloads :
       Step(t, [Idle EXCEPT !.pc = "has_channel", !.op = "process",
                            !.channel = c, !.event = e, !.data = d])
  /\ UNCHANGED <<channels, heap, refs>>

(* line 95: channel_name in self.channels *)
ProcHasChannel(t) ==
  LET th == threads[t]
  IN  /\ th.pc = "has_channel"
      /\ Step(t, [th EXCEPT !.pc = IF th.channel \in DOMAIN refs
                                     THEN "get_channel_p" ELSE "done"])
      /\ UNCHANGED <<channels, heap, refs>>

(* line 96: self.channels[channel_name] *)
ProcGetChannel(t) ==
  LET th == threads[t]
  IN  /\ th.pc = "get_channel_p"
      /\ Step(t, IF th.channel \in DOMAIN refs
                   THEN [th EXCEPT !.ch = refs[th.channel], !.pc = "has_event"]
                   ELSE [th EXCEPT !.raised = "KeyError", !.pc = "done"])
      /\ UNCHANGED <<channels, heap, refs>>

(* line 66: event_name in self.subscribers *)
ProcHasEvent(t) ==
  LET th == threads[t]
  IN  /\ th.pc = "has_event"
      /\ Step(t, [th EXCEPT !.pc =
                    IF th.event \in DOMAIN heap[th.ch].subscribers
                      THEN "get_subscription" ELSE "done"])
      /\ UNCHANGED <<channels, heap, refs>>

(* line 67: self.subscribers[event_name] *)
ProcGetSubscription(t) ==
  LET th == threads[t]
      subs == heap[th.ch].subscribers
  IN  /\ th.pc = "get_subscription"
      /\ Step(t, IF th.event \in DOMAIN subs
                   THEN [th EXCEPT !.sub = subs[th.event], !.pc = "run"]
                   ELSE [th EXCEPT !.raised = "KeyError", !.pc = "done"])
      /\ UNCHANGED <<channels, heap, refs>>

(* lines 26-27: Subscription.process on the subscription that was looked up *)
ProcRun(t) ==
  LET th == threads[t]
      r == Subscription_process(th.sub, th.data)
  IN  /\ th.pc = "run"
      /\ Step(t, [th EXCEPT !.raised = r.raised, !.ret = r.ret,
                            !.called = r.called, !.pc = "done"])
      /\ UNCHANGED <<channels, heap, refs>>

NextThreads ==
  \/ \E t \in Threads : ThreadRegister(t)
  \/ \E t \in Threads : RegCheckChannel(t)
  \/ \E t \in Threads : RegCreateChannel(t)
  \/ \E t \in Threads : RegGetChannel(t)
  \/ \E t \in Threads : RegCheckEvent(t)
  \/ \E t \in Threads : RegStore(t)
  \/ \E t \in Threads : ThreadProcess(t)
  \/ \E t \in Threads : ProcHasChannel(t)
  \/ \E t \in Threads : ProcGetChannel(t)
  \/ \E t \in Threads : ProcHasEvent(t)
  \/ \E t \in Threads : ProcGetSubscription(t)
  \/ \E t \in Threads : ProcRun(t)

SpecThreads == InitThreads /\ [][NextThreads]_vars

(***************************************************************************)
(* Vocabulary of the properties                                            *)
(***************************************************************************)
ProcessOps == {"Channel.process", "ChannelRouter.process", "Application.process"}

SubscriptionOps ==
  {"Channel.register_subscription", "ChannelRouter.register_subscription",
   "Application.register_subscription"}

(* (c, e) has a stored Subscription in the registries chs *)
Bound(chs, c, e) == c \in DOMAIN chs /\ e \in DOMAIN chs[c].subscribers

(* the call just made is a dispatch that reached routing *)
Routed(cl) == cl.op \in ProcessOps /\ cl.channel # "-"

(* C1: a dispatch to a registered (channel, event) whose payload violates the
   subscription's shape ends with the validation error, invokes no handler
   and leaves the registries unchanged, at all three levels. *)
C1_ValidationPrecedesInvocation ==
  [][(/\ Routed(call')
      /\ Bound(channels, call'.channel, call'.event)
      /\ ~Validates(channels[call'.channel].subscribers[call'.event].model,
                    call'.data))
     => (/\ call'.raised = "ValidationError"
         /\ call'.called = <<>>
         /\ channels' = channels)]_vars

C1_Witness ==
  /\ call.op = "Application.process"
  /\ Bound(channels, call.channel, call.event)
  /\ ~Validates(channels[call.channel].subscribers[call.event].model, call.data)
  /\ call.raised = "ValidationError"

(* C2: a dispatch to a registered (channel, event) with a payload that
   satisfies the shape invokes the handler bound to that pair exactly once,
   no other handler, and returns that handler's return value. *)
C2_ValidDispatchInvokesOnce ==
  [][(/\ Routed(call')
      /\ Bound(channels, call'.channel, call'.event)
      /\ Validates(channels[call'.channel].subscribers[call'.event].model,
                   call'.data))
     => LET sub == channels[call'.channel].subscribers[call'.event]
        IN  /\ call'.raised = NoError
            /\ call'.called = <<sub.func>>
            /\ call'.ret = Invoke(sub.func, Construct(sub.model, call'.data))]_vars

C2_Witness ==
  /\ call.op \in ProcessOps
  /\ call.called = <<"hId">>
  /\ call.ret = [handler |-> "hId", arg |-> Construct("ModelId", call.data)]
  /\ \E c \in DOMAIN channels : \E e \in DOMAIN channels[c].subscribers :
       <<c, e>> # <<call.channel, call.event>>

(* C3: a dispatch to an unregistered channel, or to an unregistered event of
   a registered channel, returns no result, raises nothing, invokes no
   handler and leaves the channels and their registries unchanged. *)
C3_UnroutedDispatchIsNoOp ==
  [][(Routed(call') /\ ~Bound(channels, call'.channel, call'.event))
     => (/\ call'.raised = NoError
         /\ call'.ret = None
         /\ call'.called = <<>>
         /\ channels' = channels)]_vars

C3_Witness ==
  /\ call.op = "ChannelRouter.process"
  /\ call.channel \notin DOMAIN channels
  /\ channels # <<>>
  /\ call.ret = None

(* C4: a registration through the router or the application that fails with
   a signature error leaves the set of channels and every registry as it was
   before the call. *)
C4_FailedRegistrationHasNoEffect ==
  [][(/\ call'.op \in {"ChannelRouter.register_subscription",
                       "Application.register_subscription"}
      /\ call'.raised # NoError)
     => channels' = channels]_vars

(* C5: registering a handler with zero or two-or-more parameters fails, no
   Subscription appears or changes in any registry, and every dispatch to an
   already bound (channel, event) behaves as before. *)
C5_BadSignatureStoresNothing ==
  [][(call'.op \in SubscriptionOps /\ Len(Parameters(call'.func)) # 1)
     => (/\ call'.raised = "Exception"
         /\ \A c \in DOMAIN channels' : \A e \in DOMAIN channels'[c].subscribers :
              /\ Bound(channels, c, e)
              /\ channels'[c].subscribers[e] = channels[c].subscribers[e]
         /\ \A c \in DOMAIN channels : \A e \in DOMAIN channels[c].subscribers :
              /\ Bound(channels', c, e)
              /\ \A d \in Payloads :
                   ChannelRouter_process(channels', c, e, d)
                     = ChannelRouter_process(channels, c, e, d))]_vars

C5_Witness ==
  /\ call.op \in SubscriptionOps
  /\ call.func \in {"h0", "h2"}
  /\ call.raised = "Exception"
  /\ Bound(channels, call.channel, call.event)

(* C6: a successful registration on a (channel, event) leaves exactly one
   Subscription for the pair, bound to the handler just registered, and a
   dispatch only ever invokes the handler currently stored for its pair, so
   an overwritten handler is not invoked through that pair again. *)
C6_LastRegistrationWins ==
  [][/\ (call'.op \in SubscriptionOps /\ call'.raised = NoError)
        => (/\ Bound(channels', call'.channel, call'.event)
            /\ channels'[call'.channel].subscribers[call'.event].func = call'.func
            /\ DOMAIN channels'[call'.channel].subscribers
                 = (IF call'.channel \in DOMAIN channels
                      THEN DOMAIN channels[call'.channel].subscribers ELSE {})
                   \cup {call'.event})
     /\ (call'.op \in ProcessOps)
        => \A i \in DOMAIN call'.called :
             /\ Bound(channels', call'.channel, call'.event)
             /\ call'.called[i]
                  = channels'[call'.channel].subscribers[call'.event].func]_vars

C6_Witness ==
  /\ call.op \in SubscriptionOps
  /\ call.warned = 1
  /\ call.raised = NoError
  /\ call.replaced = "hId"
  /\ call.func = "hText"
  /\ channels[call.channel].subscribers[call.event].func = "hText"

(* the event names a schema lists under key *)
Listed(schema, key) == IF key \in DOMAIN schema THEN DOMAIN schema[key] ELSE {}

(* C7: a registration on an event name already present in the registry it
   writes emits one warning and ends with the new binding stored in place of
   the old one; a registration on a name not yet present emits no warning. *)
C7_WarningIffReplaced ==
  [][/\ (call'.op \in SubscriptionOps)
        => IF Bound(channels, call'.channel, call'.event)
             THEN /\ call'.warned = 1
                  /\ Bound(channels', call'.channel, call'.event)
                  /\ channels'[call'.channel].subscribers[call'.event].func
                       = call'.func
             ELSE call'.warned = 0
     /\ (call'.op = "Channel.register_publish")
        => IF call'.event \in DOMAIN channels[call'.channel].publishers
             THEN /\ call'.warned = 1
                  /\ channels'[call'.channel].publishers[call'.event].model
                       = call'.model
             ELSE call'.warned = 0]_vars

(* C8: the schema of every channel present in the router has both a
   "publish" key and a "subscribe" key. *)
C8_SchemaHasBothKeys ==
  \A c \in DOMAIN channels :
    {"publish", "subscribe"} \subseteq DOMAIN Channel_schema(channels[c])

(* C9: in every channel's schema the names under "publish" are exactly the
   names of the subscription registry and the names under "subscribe" exactly
   those of the publish registry, each entry being {"payload": schema of the
   stored shape}; right after a registration the entry of the registered
   event carries the shape of that registration. *)
C9_SchemaNamingInversion ==
  /\ \A c \in DOMAIN channels :
       LET ch == channels[c]
           schema == Application_schema(channels).channels[c]
       IN  /\ Listed(schema, "publish") = DOMAIN ch.subscribers
           /\ Listed(schema, "subscribe") = DOMAIN ch.publishers
           /\ \A e \in DOMAIN ch.subscribers :
                schema.publish[e] = [payload |-> ModelSchema(ch.subscribers[e].model)]
           /\ \A e \in DOMAIN ch.publishers :
                schema.subscribe[e] = [payload |-> ModelSchema(ch.publishers[e].model)]
  /\ (call.op \in SubscriptionOps /\ call.raised = NoError)
       => Channel_schema(channels[call.channel]).publish[call.event]
            = [payload |-> ModelSchema(Parameters(call.func)[1])]
  /\ (call.op = "Channel.register_publish")
       => Channel_schema(channels[call.channel]).subscribe[call.event]
            = [payload |-> ModelSchema(call.model)]

C9_Witness ==
  /\ call.op = "Channel.register_publish"
  /\ call.warned = 1
  /\ call.model = "ModelText"
  /\ call.event \in DOMAIN channels[call.channel].subscribers
  /\ channels[call.channel].subscribers[call.event].model = "ModelId"
  /\ Channel_schema(channels[call.channel]).subscribe[call.event].payload.title
       = "ModelText"

(* the text of msg spells out an object with the three envelope fields *)
Decodable(msg) ==
  msg.json /\ {"channel", "event", "data"} \subseteq DOMAIN msg.body

(* C10: Application.process on a message that cannot be decoded into the
   envelope fails with the decode error, invokes no handler and changes no
   registry; on a decodable message it ends exactly as ChannelRouter.process
   does for the envelope's channel, event and data. *)
C10_DecodeBeforeRouting ==
  [][(call'.op = "Application.process")
     => IF Decodable(call'.message)
          THEN LET body == call'.message.body
                   r == ChannelRouter_process(channels, body.channel,
                                              body.event, body.data)
               IN  /\ call'.raised = r.raised
                   /\ call'.ret = r.ret
                   /\ call'.called = r.called
          ELSE /\ call'.raised = "DecodeError"
               /\ call'.called = <<>>
               /\ channels' = channels]_vars

C10_Witness ==
  /\ call.op = "Application.process"
  /\ call.raised = "DecodeError"
  /\ ~call.message.json
  /\ Bound(channels, call.message.body.channel, call.message.body.event)

(* C11: register_publish called on the router or the application for a
   not-yet-seen channel creates the channel and stores the publish descriptor
   under the event name, so that the event is listed under the channel's
   "subscribe" key of Application.schema(). *)
C11_RouterLevelRegisterPublish ==
  [][(/\ call'.op \in {"ChannelRouter.register_publish",
                       "Application.register_publish"}
      /\ call'.channel \notin DOMAIN channels)
     => (/\ call'.raised = NoError
         /\ call'.channel \in DOMAIN channels'
         /\ call'.event \in DOMAIN channels'[call'.channel].publishers
         /\ channels'[call'.channel].publishers[call'.event].model = call'.model
         /\ call'.event \in
              Listed(Application_schema(channels').channels[call'.channel],
                     "subscribe"))]_vars

DecoratorOps == {"Channel.subscribe", "ChannelRouter.subscribe", "Application.subscribe"}

(* what the direct registration call of the decorator's level does from chs *)
DirectCall(op, chs, c, e, f) ==
  CASE op = "Application.subscribe" ->
         Application_register_subscription(chs, c, e, f)
    [] op = "ChannelRouter.subscribe" ->
         ChannelRouter_register_subscription(chs, c, e, f)
    [] OTHER ->
         LET r == Channel_register_subscription(chs[c], e, f)
         IN  [channels |-> [chs EXCEPT ![c] = r.channel],
              warned |-> r.warned, raised |-> r.raised, created |-> FALSE]

(* C12: applying subscribe(channel, event) to a handler leaves the registries
   as the direct register_subscription call would from the same state, with
   the same warning and the same error, and on success returns the handler
   it was given. *)
C12_DecoratorEqualsDirectCall ==
  [][(call'.op \in DecoratorOps)
     => LET r == DirectCall(call'.op, channels, call'.channel, call'.event,
                            call'.func)
        IN  /\ channels' = r.channels
            /\ call'.warned = r.warned
            /\ call'.raised = r.raised
            /\ (r.raised = NoError) => (call'.ret = [function |-> call'.func])]_vars

C12_Witness ==
  /\ call.op = "Application.subscribe"
  /\ call.warned = 1
  /\ call.replaced = "hId"
  /\ call.func = "hText"
  /\ call.ret = [function |-> "hText"]
  /\ channels[call.channel].subscribers[call.event].func = "hText"

(* C13: registering a handler that declares exactly one parameter succeeds
   on any channel and event name, seen or not, and the stored Subscription is
   bound to that handler with the parameter's declared type as its shape. *)
C13_OneParameterRegisters ==
  (call.op \in SubscriptionOps /\ Len(Parameters(call.func)) = 1)
    => (/\ call.raised = NoError
        /\ Bound(channels, call.channel, call.event)
        /\ channels[call.channel].subscribers[call.event]
             = [func |-> call.func, model |-> Parameters(call.func)[1]])

C13_Witness ==
  /\ call.op = "ChannelRouter.register_subscription"
  /\ call.created
  /\ call.func = "hText"
  /\ channels[call.channel].subscribers[call.event].model = "ModelText"
  /\ DOMAIN channels = ChannelNames

(* C14: no call removes a channel from the router or an event name from a
   channel's subscription or publish registry, failing calls included. *)
C14_RegistriesOnlyGrow ==
  [][/\ DOMAIN channels \subseteq DOMAIN channels'
     /\ \A c \in DOMAIN channels :
          /\ DOMAIN channels[c].subscribers \subseteq DOMAIN channels'[c].subscribers
          /\ DOMAIN channels[c].publishers \subseteq DOMAIN channels'[c].publishers]_vars

C14_Witness ==
  /\ call.op \in SubscriptionOps
  /\ call.raised = "Exception"
  /\ call.warned = 1
  /\ call.event \in DOMAIN channels[call.channel].subscribers
  /\ DOMAIN channels[call.channel].publishers # {}

(* C15: Application.schema() returns "asyncapi": "2.2.0" and a "channels"
   mapping whose keys are exactly the channel names in the router, each
   mapped to that channel's schema, and changes no registry. *)
C15_ApplicationSchema ==
  [][(call'.op = "Application.schema")
     => (/\ DOMAIN call'.ret = {"asyncapi", "channels"}
         /\ call'.ret.asyncapi = "2.2.0"
         /\ DOMAIN call'.ret.channels = DOMAIN channels
         /\ \A c \in DOMAIN channels :
              call'.ret.channels[c] = Channel_schema(channels[c])
         /\ channels' = channels)]_vars

C15_Witness ==
  /\ call.op = "Application.schema"
  /\ DOMAIN call.ret.channels = ChannelNames
  /\ \E c \in ChannelNames : call.ret.channels[c] = <<>>
  /\ \E c \in ChannelNames : DOMAIN call.ret.channels[c] = {"publish"}

(* C16: register_publish never changes a subscription registry,
   register_subscription never changes a publish registry, and dispatching an
   event name that has only a publish descriptor invokes no handler, returns
   no result and raises no error. *)
C16_IndependentRegistries ==
  [][/\ (call'.op = "Channel.register_publish")
        => (/\ DOMAIN channels' = DOMAIN channels
            /\ \A c \in DOMAIN channels :
                 channels'[c].subscribers = channels[c].subscribers)
     /\ (call'.op \in SubscriptionOps \cup DecoratorOps)
        => \A c \in DOMAIN channels' :
             channels'[c].publishers
               = (IF c \in DOMAIN channels THEN channels[c].publishers ELSE <<>>)
     /\ (/\ Routed(call')
         /\ call'.channel \in DOMAIN channels
         /\ call'.event \in DOMAIN channels[call'.channel].publishers
         /\ call'.event \notin DOMAIN channels[call'.channel].subscribers)
        => (/\ call'.raised = NoError
            /\ call'.ret = None
            /\ call'.called = <<>>)]_vars

C16_Witness ==
  /\ call.op = "Application.process"
  /\ call.channel \in DOMAIN channels
  /\ call.event \in DOMAIN channels[call.channel].publishers
  /\ call.event \notin DOMAIN channels[call.channel].subscribers
  /\ call.data = FullPayload
  /\ call.ret = None

(* C17: when two threads have both returned from register_subscription with
   valid handlers for two distinct event names on the same channel, and the
   channel did not exist when they called, the router holds that channel
   with both subscriptions.  (The channel did not exist exactly when one of
   the two threads found it missing at line 83.) *)
C17_ConcurrentRegistrationKeepsBoth ==
  \A t \in Threads : \A u \in Threads \ {t} :
    (/\ threads[t].pc = "done" /\ threads[u].pc = "done"
     /\ threads[t].op = "register" /\ threads[u].op = "register"
     /\ threads[t].raised = NoError /\ threads[u].raised = NoError
     /\ threads[t].channel = threads[u].channel
     /\ threads[t].event # threads[u].event
     /\ (threads[t].missing \/ threads[u].missing))
    => (/\ threads[t].channel \in DOMAIN channels
        /\ {threads[t].event, threads[u].event}
             \subseteq DOMAIN channels[threads[t].channel].subscribers)

(* C18: a dispatch whose payload satisfies both the old and the new shape and
   that runs concurrently with a registration overwriting its (channel,
   event) ends without error having invoked exactly one handler, once: the
   old one or the new one, whose return value it returns. *)
C18_DispatchDuringOverwrite ==
  \A p \in Threads : \A r \in Threads \ {p} :
    (/\ threads[p].pc = "done" /\ threads[p].op = "process"
     /\ threads[r].op = "register" /\ threads[r].pc \in {"store", "done"}
     /\ threads[r].raised = NoError /\ threads[r].warned = 1
     /\ threads[p].channel = threads[r].channel
     /\ threads[p].event = threads[r].event
     /\ Validates(Parameters(threads[r].replaced)[1], threads[p].data)
     /\ Validates(Parameters(threads[r].func)[1], threads[p].data))
    => (/\ threads[p].raised = NoError
        /\ Len(threads[p].called) = 1
        /\ threads[p].called[1] \in {threads[r].replaced, threads[r].func}
        /\ threads[p].ret
             = Invoke(threads[p].called[1],
                      Construct(Parameters(threads[p].called[1])[1],
                                threads[p].data)))

C18_Witness ==
  \E p \in Threads : \E r \in Threads \ {p} :
    /\ threads[p].pc = "done" /\ threads[p].op = "process"
    /\ threads[r].op = "register" /\ threads[r].pc = "done"
    /\ threads[r].warned = 1 /\ threads[r].raised = NoError
    /\ threads[r].replaced = "hId" /\ threads[r].func = "hText"
    /\ threads[p].channel = threads[r].channel
    /\ threads[p].event = threads[r].event
    /\ threads[p].data = FullPayload
    /\ threads[p].called = <<"hId">>
    /\ threads[p].sub # channels[threads[p].channel].subscribers[threads[p].event]

====
